---- MODULE Spec2Model ----
(***************************************************************************)
(* ur-registry: typed CBOR records (SuiSignRequest, ErgoSignature) and the *)
(* registry table of type names and tags.                                  *)
(*                                                                         *)
(* The wire is a sequence of CBOR data-item heads (tokens), one token per  *)
(* minicbor Encoder call (map, int, tag, bytes, str, array, bool).  The    *)
(* decoder is a cursor over that sequence.                                 *)
(***************************************************************************)
EXTENDS Integers, Sequences, FiniteSets, TLC

(***************************************************************************)
(* Bounds of the model.                                                    *)
(***************************************************************************)
MaxPaths == 2        \* longest derivation_paths list
MaxAddrs == 1        \* longest addresses list

(***************************************************************************)
(* Field keys.                                                             *)
(***************************************************************************)
REQUEST_ID == 1
SIGN_DATA == 2
SIGN_TYPE == 3
DERIVATION_PATHS == 4
ADDRESSES == 5
ORIGIN == 6
SIGNATURE == 2
U8_MAX == 255

(***************************************************************************)
(* registry_types.rs: the constants, as written.                           *)
(***************************************************************************)
RegistryType(name, tag) == [name |-> name, tag |-> tag]

RegistryTypes ==
  [ UUID                  |-> RegistryType("uuid", 37),
    CRYPTO_HDKEY          |-> RegistryType("crypto-hdkey", 303),
    CRYPTO_KEYPATH        |-> RegistryType("crypto-keypath", 304),
    CRYPTO_COIN_INFO      |-> RegistryType("crypto-coin-info", 305),
    CRYPTO_ECKEY          |-> RegistryType("crypto-eckey", 306),
    CRYPTO_OUTPUT         |-> RegistryType("crypto-output", 308),
    CRYPTO_PSBT           |-> RegistryType("crypto-psbt", 310),
    CRYPTO_ACCOUNT        |-> RegistryType("crypto-account", 311),
    CRYPTO_MULTI_ACCOUNTS |-> RegistryType("crypto-multi-accounts", 1103),
    ETH_SIGN_REQUEST      |-> RegistryType("eth-sign-request", 401),
    ETH_SIGNATURE         |-> RegistryType("eth-signature", 402),
    SOL_SIGN_REQUEST      |-> RegistryType("sol-sign-request", 1101),
    SOL_SIGNATURE         |-> RegistryType("sol-signature", 1102),
    COSMOS_SIGN_REQUEST   |-> RegistryType("sol-sign-request", 4101),
    COSMOS_SIGNATURE      |-> RegistryType("sol-signature", 4102),
    TRON_SIGN_REQUEST     |-> RegistryType("tron-sign-request-kt", 5101),
    TRON_SIGNATURE        |-> RegistryType("tron-signature", 5102) ]

get_type(c) == RegistryTypes[c].name
get_tag(c) == RegistryTypes[c].tag

UUID_TAG == get_tag("UUID")
KEYPATH_TAG == get_tag("CRYPTO_KEYPATH")

(***************************************************************************)
(* Tokens: what one Encoder call writes and one Decoder call reads.        *)
(***************************************************************************)
Tok(k, n, b) == [k |-> k, n |-> n, b |-> b]
Map(n) == Tok("map", n, <<>>)
Array(n) == Tok("array", n, <<>>)
UInt(n) == Tok("uint", n, <<>>)
Tag(n) == Tok("tag", n, <<>>)
Bytes(b) == Tok("bytes", 0, b)
Str(s) == Tok("text", 0, s)
Bool(x) == Tok("bool", IF x THEN 1 ELSE 0, <<>>)

RECURSIVE Concat(_)
Concat(ss) == IF ss = <<>> THEN <<>> ELSE Head(ss) \o Concat(Tail(ss))

(***************************************************************************)
(* Values.                                                                 *)
(***************************************************************************)
None == [some |-> FALSE, v |-> <<>>]
Some(x) == [some |-> TRUE, v |-> x]

SeqsUpTo(S, n) == UNION {[1..m -> S] : m \in 0..n}

Blobs == {<<>>, <<7>>}
SignTypes == {"Single", "Multi", "Message"}

PathComponent(i, h) == [index |-> i, hardened |-> h]
CryptoKeyPath(cs, fp) == [components |-> cs, source_fingerprint |-> fp]
NoFingerprint == [some |-> FALSE, v |-> 0]
KeyPathDefault == CryptoKeyPath(<<>>, NoFingerprint)
KeyPaths ==
  { CryptoKeyPath(<<PathComponent(44, TRUE)>>, [some |-> TRUE, v |-> 9]),
    KeyPathDefault }

SuiSignRequest(rid, data, st, paths, addrs, org) ==
  [request_id |-> rid, sign_data |-> data, sign_type |-> st,
   derivation_paths |-> paths, addresses |-> addrs, origin |-> org]
SuiDefault == SuiSignRequest(None, <<>>, "Single", <<>>, None, None)

ErgoSignature(rid, sig) == [request_id |-> rid, signature |-> sig]
ErgoDefault == ErgoSignature(<<>>, <<>>)

OptBlobs == {None} \cup {Some(b) : b \in Blobs}
SuiRecords ==
  { SuiSignRequest(rid, data, st, paths, addrs, org) :
      rid \in OptBlobs, data \in Blobs, st \in SignTypes,
      paths \in SeqsUpTo(KeyPaths, MaxPaths),
      addrs \in {None} \cup {Some(a) : a \in SeqsUpTo(Blobs, MaxAddrs)},
      org \in OptBlobs }
ErgoRecords == { ErgoSignature(rid, sig) : rid \in Blobs, sig \in Blobs }

(***************************************************************************)
(* SignType                                                                *)
(***************************************************************************)
SignTypeAsU32(t) ==
  CASE t = "Single" -> 1
    [] t = "Multi" -> 2
    [] t = "Message" -> 3

SignType_from_u32(i) ==
  CASE i = 1 -> [ok |-> TRUE, v |-> "Single"]
    [] i = 2 -> [ok |-> TRUE, v |-> "Multi"]
    [] i = 3 -> [ok |-> TRUE, v |-> "Message"]
    [] OTHER -> [ok |-> FALSE, v |-> "Single"]

(***************************************************************************)
(* CryptoKeyPath on the wire: map { 1: [index, hardened, ...],             *)
(* 2: source fingerprint }.                                                *)
(***************************************************************************)
RECURSIVE ComponentTokens(_)
ComponentTokens(cs) ==
  IF cs = <<>> THEN <<>>
  ELSE <<UInt(Head(cs).index), Bool(Head(cs).hardened)>> \o ComponentTokens(Tail(cs))

KeyPathEncode(p) ==
  <<Map(IF p.source_fingerprint.some THEN 2 ELSE 1)>>
    \o <<UInt(1), Array(2 * Len(p.components))>> \o ComponentTokens(p.components)
    \o (IF p.source_fingerprint.some
          THEN <<UInt(2), UInt(p.source_fingerprint.v)>> ELSE <<>>)

(***************************************************************************)
(* Encode.  The result carries what the encoder has written when it        *)
(* returns: the tokens, and the keys of the pairs it wrote.                *)
(***************************************************************************)
Written(ok, out, keys) == [ok |-> ok, out |-> out, keys |-> keys]

map_size_fixed(self) == 3

map_size(self) ==
  3 + (IF self.request_id.some THEN 1 ELSE 0)
    + (IF self.addresses.some THEN 1 ELSE 0)
    + (IF self.origin.some THEN 1 ELSE 0)

RECURSIVE TaggedPaths(_)
TaggedPaths(paths) ==
  IF paths = <<>> THEN <<>>
  ELSE <<Tag(KEYPATH_TAG)>> \o KeyPathEncode(Head(paths)) \o TaggedPaths(Tail(paths))

RECURSIVE BytesEach(_)
BytesEach(bs) == IF bs = <<>> THEN <<>> ELSE <<Bytes(Head(bs))>> \o BytesEach(Tail(bs))

SuiHead(self) ==
  LET hdr == <<Map(map_size(self))>>
      rid == IF self.request_id.some
               THEN <<UInt(REQUEST_ID), Tag(UUID_TAG), Bytes(self.request_id.v)>>
               ELSE <<>>
      data == <<UInt(SIGN_DATA), Bytes(self.sign_data)>>
      st == <<UInt(SIGN_TYPE), UInt(SignTypeAsU32(self.sign_type))>>
  IN Written(TRUE, hdr \o rid \o data \o st,
             (IF self.request_id.some THEN <<REQUEST_ID>> ELSE <<>>)
               \o <<SIGN_DATA, SIGN_TYPE>>)

SuiTail(self) ==
  LET paths == <<UInt(DERIVATION_PATHS), Array(Len(self.derivation_paths))>>
                 \o TaggedPaths(self.derivation_paths)
      addrs == IF self.addresses.some
                 THEN <<UInt(ADDRESSES), Array(Len(self.addresses.v))>>
                        \o BytesEach(self.addresses.v)
                 ELSE <<>>
      org == IF self.origin.some THEN <<UInt(ORIGIN), Str(self.origin.v)>> ELSE <<>>
  IN Written(TRUE, paths \o addrs \o org,
             <<DERIVATION_PATHS>>
               \o (IF self.addresses.some THEN <<ADDRESSES>> ELSE <<>>)
               \o (IF self.origin.some THEN <<ORIGIN>> ELSE <<>>))

SuiEncode_unchecked(self) ==
  Written(TRUE, SuiHead(self).out \o SuiTail(self).out,
          SuiHead(self).keys \o SuiTail(self).keys)

SuiEncode(self) ==
  IF self.derivation_paths = <<>>
    THEN Written(FALSE, SuiHead(self).out, SuiHead(self).keys)
    ELSE Written(TRUE, SuiHead(self).out \o SuiTail(self).out,
                 SuiHead(self).keys \o SuiTail(self).keys)

ErgoEncode(self) ==
  Written(TRUE,
          <<Map(3)>>
            \o <<UInt(REQUEST_ID), Tag(UUID_TAG), Bytes(self.request_id)>>
            \o <<UInt(SIGNATURE), Bytes(self.signature)>>,
          <<REQUEST_ID, SIGNATURE>>)

(***************************************************************************)
(* Decoder: a cursor pos into buf; pos is the next token to read.          *)
(***************************************************************************)
D(ok, obj, pos) == [ok |-> ok, obj |-> obj, pos |-> pos]

HasTok(buf, pos, k) == pos <= Len(buf) /\ buf[pos].k = k

KeyToU8_wrapping(key) == [ok |-> TRUE, v |-> key % (U8_MAX + 1)]

KeyToU8(key) == [ok |-> key <= U8_MAX, v |-> key]

(***************************************************************************)
(* CryptoKeyPath::decode                                                   *)
(***************************************************************************)
RECURSIVE KeyPathComponents(_, _, _, _)
KeyPathComponents(buf, pos, n, acc) ==
  IF n = 0 THEN D(TRUE, acc, pos)
  ELSE IF n >= 2 /\ HasTok(buf, pos, "uint") /\ HasTok(buf, pos + 1, "bool")
    THEN KeyPathComponents(buf, pos + 2, n - 2,
           Append(acc, PathComponent(buf[pos].n, buf[pos + 1].n = 1)))
    ELSE D(FALSE, acc, pos)

RECURSIVE KeyPathFields(_, _, _, _)
KeyPathFields(buf, pos, n, obj) ==
  IF n = 0 THEN D(TRUE, obj, pos)
  ELSE IF ~HasTok(buf, pos, "uint") THEN D(FALSE, obj, pos)
  ELSE LET key == buf[pos].n
           h == CASE key = 1 ->
                       IF HasTok(buf, pos + 1, "array")
                         THEN LET c == KeyPathComponents(buf, pos + 2, buf[pos + 1].n, <<>>)
                              IN D(c.ok, [obj EXCEPT !.components = c.obj], c.pos)
                         ELSE D(FALSE, obj, pos)
                  [] key = 2 ->
                       IF HasTok(buf, pos + 1, "uint")
                         THEN D(TRUE, [obj EXCEPT !.source_fingerprint =
                                         [some |-> TRUE, v |-> buf[pos + 1].n]], pos + 2)
                         ELSE D(FALSE, obj, pos)
                  [] OTHER -> D(TRUE, obj, pos + 1)
       IN IF h.ok THEN KeyPathFields(buf, h.pos, n - 1, h.obj) ELSE D(FALSE, obj, pos)

KeyPathDecode(buf, pos) ==
  IF HasTok(buf, pos, "map")
    THEN KeyPathFields(buf, pos + 1, buf[pos].n, KeyPathDefault)
    ELSE D(FALSE, KeyPathDefault, pos)

(***************************************************************************)
(* cbor_array, with the two element handlers of SuiSignRequest::decode.    *)
(***************************************************************************)
PathElement(paths, buf, pos) ==
  IF HasTok(buf, pos, "tag") /\ buf[pos].n = KEYPATH_TAG
    THEN LET p == KeyPathDecode(buf, pos + 1)
         IN D(p.ok, Append(paths, p.obj), p.pos)
    ELSE D(FALSE, paths, pos)

AddressElement(addrs, buf, pos) ==
  IF HasTok(buf, pos, "bytes")
    THEN D(TRUE, Some(Append(addrs.v, buf[pos].b)), pos + 1)
    ELSE D(FALSE, addrs, pos)

ArrayElement(which, acc, buf, pos) ==
  IF which = DERIVATION_PATHS THEN PathElement(acc, buf, pos)
  ELSE AddressElement(acc, buf, pos)

RECURSIVE ArrayVisit(_, _, _, _, _)
ArrayVisit(which, buf, pos, acc, n) ==
  IF n = 0 THEN D(TRUE, acc, pos)
  ELSE LET e == ArrayElement(which, acc, buf, pos)
       IN IF e.ok THEN ArrayVisit(which, buf, e.pos, e.obj, n - 1)
          ELSE D(FALSE, acc, pos)

cbor_array(which, buf, pos, acc) ==
  IF HasTok(buf, pos, "array")
    THEN ArrayVisit(which, buf, pos + 1, acc, buf[pos].n)
    ELSE D(FALSE, acc, pos)

(***************************************************************************)
(* The per-key handlers (the closures given to cbor_map).                  *)
(***************************************************************************)
SuiHandler(key, obj, buf, pos) ==
  LET k == KeyToU8(key)
  IN IF ~k.ok THEN D(FALSE, obj, pos)
     ELSE CASE k.v = REQUEST_ID ->
                 IF HasTok(buf, pos, "tag") /\ buf[pos].n = UUID_TAG
                      /\ HasTok(buf, pos + 1, "bytes")
                   THEN D(TRUE, [obj EXCEPT !.request_id = Some(buf[pos + 1].b)], pos + 2)
                   ELSE D(FALSE, obj, pos)
            [] k.v = SIGN_DATA ->
                 IF HasTok(buf, pos, "bytes")
                   THEN D(TRUE, [obj EXCEPT !.sign_data = buf[pos].b], pos + 1)
                   ELSE D(FALSE, obj, pos)
            [] k.v = SIGN_TYPE ->
                 IF HasTok(buf, pos, "uint") /\ SignType_from_u32(buf[pos].n).ok
                   THEN D(TRUE, [obj EXCEPT !.sign_type = SignType_from_u32(buf[pos].n).v],
                          pos + 1)
                   ELSE D(FALSE, obj, pos)
            [] k.v = DERIVATION_PATHS ->
                 LET a == cbor_array(DERIVATION_PATHS, buf, pos, obj.derivation_paths)
                 IN D(a.ok, [obj EXCEPT !.derivation_paths = a.obj], a.pos)
            [] k.v = ADDRESSES ->
                 LET init == IF obj.addresses.some THEN obj.addresses ELSE Some(<<>>)
                     a == cbor_array(ADDRESSES, buf, pos, init)
                 IN D(a.ok, [obj EXCEPT !.addresses = a.obj], a.pos)
            [] k.v = ORIGIN ->
                 IF HasTok(buf, pos, "text")
                   THEN D(TRUE, [obj EXCEPT !.origin = Some(buf[pos].b)], pos + 1)
                   ELSE D(FALSE, obj, pos)
            [] OTHER -> D(TRUE, obj, pos)

ErgoHandler(key, obj, buf, pos) ==
  LET k == KeyToU8(key)
  IN IF ~k.ok THEN D(FALSE, obj, pos)
     ELSE CASE k.v = REQUEST_ID ->
                 IF HasTok(buf, pos, "tag") /\ buf[pos].n = UUID_TAG
                      /\ HasTok(buf, pos + 1, "bytes")
                   THEN D(TRUE, [obj EXCEPT !.request_id = buf[pos + 1].b], pos + 2)
                   ELSE D(FALSE, obj, pos)
            [] k.v = SIGNATURE ->
                 IF HasTok(buf, pos, "bytes")
                   THEN D(TRUE, [obj EXCEPT !.signature = buf[pos].b], pos + 1)
                   ELSE D(FALSE, obj, pos)
            [] OTHER -> D(TRUE, obj, pos)

Handler(ty, key, obj, buf, pos) ==
  IF ty = "sui" THEN SuiHandler(key, obj, buf, pos) ELSE ErgoHandler(key, obj, buf, pos)

(***************************************************************************)
(* cbor_map: read the declared size N, then N times read a key and call    *)
(* the handler.  handled lists the keys given to the handler and what it   *)
(* returned.                                                               *)
(***************************************************************************)
Decoded(ok, obj, pos, handled) ==
  [ok |-> ok, obj |-> obj, pos |-> pos, handled |-> handled]

RECURSIVE MapVisit(_, _, _, _, _, _)
MapVisit(ty, buf, pos, obj, n, handled) ==
  IF n = 0 THEN Decoded(TRUE, obj, pos, handled)
  ELSE IF ~HasTok(buf, pos, "uint") THEN Decoded(FALSE, obj, pos, handled)
  ELSE LET key == buf[pos].n
           h == Handler(ty, key, obj, buf, pos + 1)
       IN IF h.ok
            THEN MapVisit(ty, buf, h.pos, h.obj, n - 1,
                          Append(handled, [key |-> key, ok |-> TRUE]))
            ELSE Decoded(FALSE, obj, pos, Append(handled, [key |-> key, ok |-> FALSE]))

cbor_map(ty, buf, obj) ==
  IF HasTok(buf, 1, "map")
    THEN MapVisit(ty, buf, 2, obj, buf[1].n, <<>>)
    ELSE Decoded(FALSE, obj, 1, <<>>)

SuiDecode_required(buf) ==
  LET d == cbor_map("sui", buf, SuiDefault)
  IN IF d.ok /\ d.obj.derivation_paths = <<>>
       THEN Decoded(FALSE, d.obj, d.pos, d.handled) ELSE d

SuiDecode(buf) == cbor_map("sui", buf, SuiDefault)

ErgoDecode(buf) == cbor_map("ergo", buf, ErgoDefault)

(***************************************************************************)
(* Messages from another producer of the same registry: a declared-size    *)
(* map of key/value pairs.  Any field may be missing; the tag before a     *)
(* request id or a key path and the sign-type number are whatever the      *)
(* producer wrote.                                                         *)
(***************************************************************************)
Pair(key, val) == [key |-> key, val |-> val]
Message(pairs) == [n |-> Len(pairs), pairs |-> pairs]

RECURSIVE PairTokens(_)
PairTokens(pairs) ==
  IF pairs = <<>> THEN <<>>
  ELSE <<UInt(Head(pairs).key)>> \o Head(pairs).val \o PairTokens(Tail(pairs))

Tokens(m) == <<Map(m.n)>> \o PairTokens(m.pairs)

Absent == {<<>>}
RequestIdTags == {UUID_TAG, KEYPATH_TAG}
ElementTags == {KEYPATH_TAG, get_tag("CRYPTO_HDKEY")}
SignTypeNumbers == 0..4
PeerPath == CryptoKeyPath(<<PathComponent(44, TRUE)>>, [some |-> TRUE, v |-> 9])
PeerElements == { <<Tag(t)>> \o KeyPathEncode(PeerPath) : t \in ElementTags }

PeerRequestId == Absent \cup { <<Pair(REQUEST_ID, <<Tag(t), Bytes(<<7>>)>>)>> : t \in RequestIdTags }
PeerSignData == Absent \cup { <<Pair(SIGN_DATA, <<Bytes(<<7>>)>>)>> }
PeerSignType == Absent \cup { <<Pair(SIGN_TYPE, <<UInt(v)>>)>> : v \in SignTypeNumbers }
PeerPaths ==
  Absent \cup { <<Pair(DERIVATION_PATHS, <<Array(Len(es))>> \o Concat(es))>> :
                  es \in SeqsUpTo(PeerElements, MaxPaths) }
PeerAddresses ==
  Absent \cup { <<Pair(ADDRESSES, <<Array(Len(a))>> \o BytesEach(a))>> :
                  a \in SeqsUpTo({<<7>>}, MaxAddrs) }
PeerOrigin == Absent \cup { <<Pair(ORIGIN, <<Str(<<7>>)>>)>> }
PeerSignature == Absent \cup { <<Pair(SIGNATURE, <<Bytes(<<7>>)>>)>> }

PeerMessages(t) ==
  IF t = "sui"
    THEN { Message(a \o b \o c \o d \o e \o f) :
             a \in PeerRequestId, b \in PeerSignData, c \in PeerSignType,
             d \in PeerPaths, e \in PeerAddresses, f \in PeerOrigin }
    ELSE { Message(a \o b) : a \in PeerRequestId, b \in PeerSignature }

UnknownKeys == {7, U8_MAX, U8_MAX + 1}
ExtraValues == { <<UInt(0)>>, <<Bytes(<<7>>)>> }

InsertAt(s, i, x) == SubSeq(s, 1, i - 1) \o <<x>> \o SubSeq(s, i, Len(s))

(***************************************************************************)
(* State.                                                                  *)
(***************************************************************************)
VARIABLES
  pc,        \* "idle", "encoded", "inflight", "decoded", "reencoded", "looked"
  ty,        \* "sui" or "ergo": the record type of this run
  from,      \* "local": buf is what encode wrote; "peer": buf is a peer's message
  rec,       \* the record given to encode
  enc,       \* what encode returned and had written: [ok, out, keys]
  msg,       \* the peer's message, as pairs
  extra,     \* index in msg.pairs of the inserted unknown pair, 0 if none
  buf,       \* the decoder's input
  dec,       \* what decode returned: [ok, obj, pos, handled]
  base,      \* what decode returned for the message before the insertion
  reg        \* the registry constant looked up, with get_type and get_tag

vars == <<pc, ty, from, rec, enc, msg, extra, buf, dec, base, reg>>

Default(t) == IF t = "sui" THEN SuiDefault ELSE ErgoDefault
Encode(t, r) == IF t = "sui" THEN SuiEncode(r) ELSE ErgoEncode(r)
Decode(t, b) == IF t = "sui" THEN SuiDecode(b) ELSE ErgoDecode(b)

Init ==
  /\ pc = "idle"
  /\ ty = "sui"
  /\ from = "local"
  /\ rec = SuiDefault
  /\ enc = Written(FALSE, <<>>, <<>>)
  /\ msg = Message(<<>>)
  /\ extra = 0
  /\ buf = <<>>
  /\ dec = Decoded(FALSE, SuiDefault, 1, <<>>)
  /\ base = Decoded(FALSE, SuiDefault, 1, <<>>)
  /\ reg = [const |-> "UUID", name |-> "", tag |-> 0]

\* SuiSignRequest::encode on a fresh encoder
EncodeSui ==
  /\ pc = "idle"
  /\ \E r \in SuiRecords :
       /\ rec' = r
       /\ enc' = SuiEncode(r)
  /\ ty' = "sui"
  /\ pc' = "encoded"
  /\ UNCHANGED <<from, msg, extra, buf, dec, base, reg>>

\* ErgoSignature::encode on a fresh encoder
EncodeErgo ==
  /\ pc = "idle"
  /\ \E r \in ErgoRecords :
       /\ rec' = r
       /\ enc' = ErgoEncode(r)
  /\ ty' = "ergo"
  /\ pc' = "encoded"
  /\ UNCHANGED <<from, msg, extra, buf, dec, base, reg>>

\* the bytes of a successful encode are handed to a decoder
Send ==
  /\ pc = "encoded"
  /\ enc.ok
  /\ buf' = enc.out
  /\ from' = "local"
  /\ pc' = "inflight"
  /\ UNCHANGED <<ty, rec, enc, msg, extra, dec, base, reg>>

\* a peer's message arrives
Receive ==
  /\ pc = "idle"
  /\ \E t \in {"sui", "ergo"} :
       /\ ty' = t
       /\ rec' = Default(t)
       /\ dec' = Decoded(FALSE, Default(t), 1, <<>>)
       /\ base' = Decoded(FALSE, Default(t), 1, <<>>)
       /\ \E m \in PeerMessages(t) :
            /\ msg' = m
            /\ buf' = Tokens(m)
  /\ from' = "peer"
  /\ pc' = "inflight"
  /\ UNCHANGED <<enc, extra, reg>>

\* SuiSignRequest::decode / ErgoSignature::decode on buf
DecodeBuf ==
  /\ pc = "inflight"
  /\ dec' = Decode(ty, buf)
  /\ pc' = "decoded"
  /\ UNCHANGED <<ty, from, rec, enc, msg, extra, buf, base, reg>>

\* a newer peer sends the same message with one more pair, under a key this
\* version does not define, and the declared size raised by one
InsertExtra ==
  /\ pc = "decoded"
  /\ from = "peer"
  /\ extra = 0
  /\ \E i \in 1..(Len(msg.pairs) + 1), k \in UnknownKeys, v \in ExtraValues :
       /\ msg' = Message(InsertAt(msg.pairs, i, Pair(k, v)))
       /\ buf' = Tokens(Message(InsertAt(msg.pairs, i, Pair(k, v))))
       /\ extra' = i
  /\ base' = dec
  /\ pc' = "inflight"
  /\ UNCHANGED <<ty, from, rec, enc, dec, reg>>

\* the decoded record is encoded again
ReEncode ==
  /\ pc = "decoded"
  /\ dec.ok
  /\ enc' = Encode(ty, dec.obj)
  /\ pc' = "reencoded"
  /\ UNCHANGED <<ty, from, rec, msg, extra, buf, dec, base, reg>>

\* RegistryType::get_type and get_tag on one of the constants
Lookup ==
  /\ pc = "idle"
  /\ \E c \in DOMAIN RegistryTypes :
       reg' = [const |-> c, name |-> get_type(c), tag |-> get_tag(c)]
  /\ pc' = "looked"
  /\ UNCHANGED <<ty, from, rec, enc, msg, extra, buf, dec, base>>

Next ==
  \/ EncodeSui
  \/ EncodeErgo
  \/ Send
  \/ Receive
  \/ DecodeBuf
  \/ InsertExtra
  \/ ReEncode
  \/ Lookup

Spec == Init /\ [][Next]_vars

(***************************************************************************)
(* Properties.                                                             *)
(***************************************************************************)
Carries(key) == \E i \in 1..Len(msg.pairs) : msg.pairs[i].key = key
ValuesOf(key) == { msg.pairs[i].val : i \in { j \in 1..Len(msg.pairs) : msg.pairs[j].key = key } }
DefinedKeys(t) == IF t = "sui" THEN REQUEST_ID..ORIGIN ELSE {REQUEST_ID, SIGNATURE}
EncodeInput == IF pc = "reencoded" THEN dec.obj ELSE rec
Encoded == pc \in {"encoded", "reencoded"}

\* C1: every SuiSignRequest with a non-empty derivation_paths list encodes, and
\* decoding what encode wrote gives back a record equal to it in every field.
RoundTripSui ==
  /\ (pc = "encoded" /\ ty = "sui" /\ rec.derivation_paths # <<>>) => enc.ok
  /\ (pc = "decoded" /\ ty = "sui" /\ from = "local") => (dec.ok /\ dec.obj = rec)

RoundTripSuiWitness ==
  /\ pc = "decoded" /\ ty = "sui" /\ from = "local"
  /\ rec.request_id.some /\ rec.origin.some
  /\ rec.addresses = Some(<<>>)
  /\ Len(rec.derivation_paths) = MaxPaths
  /\ rec.sign_type = "Message"
  /\ dec.ok

\* C2: decoding exactly what ErgoSignature::encode wrote succeeds and gives back
\* the same request_id and signature.
RoundTripErgo ==
  (pc = "decoded" /\ ty = "ergo" /\ from = "local") => (dec.ok /\ dec.obj = rec)

\* C3: whenever encode succeeds, the size in the map header it wrote is the
\* number of pairs it wrote; for SuiSignRequest that is 3 plus one per optional
\* field present, and an absent optional field has no key on the wire.
DeclaredSizeIsPairCount ==
  (Encoded /\ enc.ok) =>
    /\ enc.out[1] = Map(Len(enc.keys))
    /\ ty = "sui" =>
         /\ Len(enc.keys) = 3 + Cardinality({ f \in {"request_id", "addresses", "origin"} :
                                                EncodeInput[f].some })
         /\ (\E i \in 1..Len(enc.keys) : enc.keys[i] = REQUEST_ID) <=> EncodeInput.request_id.some
         /\ (\E i \in 1..Len(enc.keys) : enc.keys[i] = ADDRESSES) <=> EncodeInput.addresses.some
         /\ (\E i \in 1..Len(enc.keys) : enc.keys[i] = ORIGIN) <=> EncodeInput.origin.some

\* C4 (as claimed): encoding a SuiSignRequest with an empty derivation_paths
\* list fails with nothing written to the output.
EmptyPathsFailBeforeAnyWrite ==
  (Encoded /\ ty = "sui" /\ EncodeInput.derivation_paths = <<>>) =>
    (~enc.ok /\ enc.out = <<>>)

\* C4 (amended): encoding a SuiSignRequest with an empty derivation_paths list
\* fails; when it fails the encoder has written the map header and the pairs of
\* keys 1 (when request_id is present), 2 and 3, and nothing of keys 4, 5, 6.
EmptyPathsFailAfterSignType ==
  (Encoded /\ ty = "sui" /\ EncodeInput.derivation_paths = <<>>) =>
    /\ ~enc.ok
    /\ enc.keys = (IF EncodeInput.request_id.some THEN <<REQUEST_ID>> ELSE <<>>)
                    \o <<SIGN_DATA, SIGN_TYPE>>
    /\ enc.out[1].k = "map"
    /\ Len(enc.out) = 1 + 2 * Len(enc.keys) + (IF EncodeInput.request_id.some THEN 1 ELSE 0)
    /\ enc.out[Len(enc.out) - 1] = UInt(SIGN_TYPE)
    /\ \A i \in 1..Len(enc.out) : enc.out[i].k \notin {"array", "text"}

EmptyPathsWitness ==
  /\ pc = "encoded" /\ ty = "sui"
  /\ rec.derivation_paths = <<>>
  /\ rec.request_id.some /\ rec.addresses.some /\ rec.origin.some
  /\ ~enc.ok
  /\ Len(enc.out) = 8

\* C5: a message whose request id (key 1) stands under a tag other than 37, or
\* (SuiSignRequest) whose key-path array (key 4) has an element under a tag
\* other than 304, does not decode.
WrongRequestIdTag ==
  \E v \in ValuesOf(REQUEST_ID) : v[1].k = "tag" /\ v[1].n # 37
WrongElementTag ==
  /\ ty = "sui"
  /\ \E v \in ValuesOf(DERIVATION_PATHS) :
       \E j \in 2..Len(v) : v[j].k = "tag" /\ v[j].n # 304

TagStrict ==
  (pc = "decoded" /\ from = "peer" /\ (WrongRequestIdTag \/ WrongElementTag)) => ~dec.ok

\* The same for messages that carry defined keys only.
TagStrictDefinedKeys ==
  (pc = "decoded" /\ from = "peer" /\ extra = 0 /\ (WrongRequestIdTag \/ WrongElementTag))
    => ~dec.ok

\* C6: a SuiSignRequest message whose sign type (key 3) is a number other than
\* 1, 2, 3 does not decode, and a decoded record has the variant of that number.
EnumStrict ==
  (pc = "decoded" /\ from = "peer" /\ ty = "sui") =>
    \A v \in ValuesOf(SIGN_TYPE) :
      /\ v[1].n \notin 1..3 => ~dec.ok
      /\ dec.ok => SignTypeAsU32(dec.obj.sign_type) = v[1].n

\* The same for messages that carry defined keys only.
EnumStrictDefinedKeys ==
  (pc = "decoded" /\ from = "peer" /\ ty = "sui" /\ extra = 0) =>
    \A v \in ValuesOf(SIGN_TYPE) :
      /\ v[1].n \notin 1..3 => ~dec.ok
      /\ dec.ok => SignTypeAsU32(dec.obj.sign_type) = v[1].n

\* C7: a message that decodes still decodes, to the same record and with the
\* cursor just past the map, after one pair under an undefined key in 0..255 is
\* inserted anywhere and the declared size is raised by one.
ForwardCompatible ==
  (pc = "decoded" /\ extra # 0 /\ msg.pairs[extra].key <= 255 /\ base.ok) =>
    /\ dec.ok
    /\ dec.pos = Len(buf) + 1
    /\ dec.obj = base.obj

\* C8: each registry constant has the name and the tag the registry table
\* lists for it, and a name belongs to one tag only.
ListedRegistry ==
  [ UUID                  |-> RegistryType("uuid", 37),
    CRYPTO_HDKEY          |-> RegistryType("crypto-hdkey", 303),
    CRYPTO_KEYPATH        |-> RegistryType("crypto-keypath", 304),
    CRYPTO_COIN_INFO      |-> RegistryType("crypto-coin-info", 305),
    CRYPTO_ECKEY          |-> RegistryType("crypto-eckey", 306),
    CRYPTO_OUTPUT         |-> RegistryType("crypto-output", 308),
    CRYPTO_PSBT           |-> RegistryType("crypto-psbt", 310),
    CRYPTO_ACCOUNT        |-> RegistryType("crypto-account", 311),
    CRYPTO_MULTI_ACCOUNTS |-> RegistryType("crypto-multi-accounts", 1103),
    ETH_SIGN_REQUEST      |-> RegistryType("eth-sign-request", 401),
    ETH_SIGNATURE         |-> RegistryType("eth-signature", 402),
    SOL_SIGN_REQUEST      |-> RegistryType("sol-sign-request", 1101),
    SOL_SIGNATURE         |-> RegistryType("sol-signature", 1102),
    COSMOS_SIGN_REQUEST   |-> RegistryType("cosmos-sign-request", 4101),
    COSMOS_SIGNATURE      |-> RegistryType("cosmos-signature", 4102),
    TRON_SIGN_REQUEST     |-> RegistryType("tron-sign-request", 5101),
    TRON_SIGNATURE        |-> RegistryType("tron-signature", 5102) ]

RegistryAsListed ==
  pc = "looked" =>
    /\ reg.name = ListedRegistry[reg.const].name
    /\ reg.tag = ListedRegistry[reg.const].tag
    /\ \A c \in DOMAIN RegistryTypes : get_type(c) = reg.name => get_tag(c) = reg.tag

\* C9: a SuiSignRequest message of defined fields, each well formed, decodes
\* whichever of them are missing; a missing field is left at its default, and
\* an empty key-path array gives an empty derivation_paths.  Encoding such a
\* decoded record again fails when its derivation_paths is empty.
WellFormed ==
  /\ extra = 0
  /\ ~WrongRequestIdTag
  /\ ~WrongElementTag
  /\ \A v \in ValuesOf(SIGN_TYPE) : v[1].n \in 1..3

NoRequiredFieldCheck ==
  /\ (pc = "decoded" /\ from = "peer" /\ ty = "sui" /\ WellFormed) =>
       /\ dec.ok
       /\ ~Carries(REQUEST_ID) => dec.obj.request_id = None
       /\ ~Carries(SIGN_DATA) => dec.obj.sign_data = <<>>
       /\ ~Carries(SIGN_TYPE) => dec.obj.sign_type = "Single"
       /\ ~Carries(DERIVATION_PATHS) => dec.obj.derivation_paths = <<>>
       /\ <<Array(0)>> \in ValuesOf(DERIVATION_PATHS) => dec.obj.derivation_paths = <<>>
       /\ ~Carries(ADDRESSES) => dec.obj.addresses = None
       /\ ~Carries(ORIGIN) => dec.obj.origin = None
  /\ (pc = "reencoded" /\ ty = "sui" /\ dec.obj.derivation_paths = <<>>) => ~enc.ok

DecodesButDoesNotEncode ==
  /\ pc = "reencoded" /\ from = "peer" /\ ty = "sui" /\ WellFormed
  /\ ~Carries(SIGN_DATA) /\ ~Carries(SIGN_TYPE)
  /\ <<Array(0)>> \in ValuesOf(DERIVATION_PATHS)
  /\ dec.ok
  /\ ~enc.ok

\* C10 (as claimed): the handler returns success for every key the type does
\* not define, whatever its size.
UnknownKeyNeverFails ==
  pc = "decoded" =>
    \A i \in 1..Len(dec.handled) :
      dec.handled[i].key \notin DefinedKeys(ty) => dec.handled[i].ok

\* C10 (amended): the handler returns success for every undefined key in
\* 0..255; for a key of 256 or more it returns an error and decode fails.
UnknownKeyFailsOnlyAboveU8 ==
  pc = "decoded" =>
    \A i \in 1..Len(dec.handled) :
      dec.handled[i].key \notin DefinedKeys(ty) =>
        /\ dec.handled[i].key <= 255 => dec.handled[i].ok
        /\ dec.handled[i].key >= 256 => (~dec.handled[i].ok /\ ~dec.ok)

UnknownKeyWitness ==
  /\ pc = "decoded" /\ extra # 0
  /\ base.ok
  /\ msg.pairs[extra].key = 256
  /\ \E i \in 1..Len(dec.handled) : dec.handled[i].key = 256 /\ ~dec.handled[i].ok
  /\ ~dec.ok

====
